---- MODULE Spec2Model ----
(***************************************************************************)
(* A model of flytekit/clients/auth/auth_client.py: the per-endpoint       *)
(* registry of AuthorizationClient objects, the one-shot loopback callback *)
(* listener (OAuthHTTPServer / OAuthCallbackHandler) that runs in a forked *)
(* process, and the two token-endpoint exchanges.                          *)
(***************************************************************************)
EXTENDS Integers, Sequences, FiniteSets, TLC

(***************************************************************************)
(* Bounds of the model.                                                    *)
(***************************************************************************)
\* AuthorizationClient objects ever created in the process.
MaxInstances == 2
\* Connections the kernel holds on the listening socket, not yet accepted.
MaxBacklog == 2
\* get_creds_from_remote() / refresh_access_token() calls made in a run.
MaxCalls == 2
\* Largest number of random bytes _generate_code_verifier is made to draw.
MaxVerifierBytes == 100
\* Threads that call AuthorizationClient(...) at the same time.
MaxThreads == 2

(***************************************************************************)
(* Values.                                                                 *)
(***************************************************************************)
None == "None"

Endpoints == {"e1", "e2"}
AuthEndpoints == {"a1", "a2"}
Codes == {"c1", "c2"}

\* What os.urandom + base64 + re.sub return: opaque values, no two draws alike,
\* named here in the order they are drawn (the n-th object made draws the
\* n-th verifier and the n-th state token).
VerifierNames == <<"v1", "v2", "v3", "v4">>
StateTokenNames == <<"s1", "s2", "s3", "s4">>
StateTokens == { StateTokenNames[n] : n \in 1..MaxInstances }

_generate_code_verifier(n) == VerifierNames[n]
_generate_state_parameter(n) == StateTokenNames[n]

\* The remaining constructor arguments, as they are passed together. An optional
\* object (endpoint_metadata here; the dequeued code and the like below) is a
\* sequence: <<>> for None, <<x>> for the object x.
ArgsA ==
    [token_endpoint |-> "t1", client_id |-> "cid1", scopes |-> <<"all">>,
     redirect_uri |-> "http://localhost:53593/callback",
     endpoint_metadata |-> <<>>]

ArgsB ==
    [token_endpoint |-> "t2", client_id |-> "cid2", scopes |-> <<>>,
     redirect_uri |-> "http://localhost:53594/cb/",
     endpoint_metadata |-> <<[endpoint |-> "label", success_html |-> "custom"]>>]

\* The argument lists AuthorizationClient is called with: endpoint,
\* auth_endpoint and the rest.
CallInputs ==
    { <<"e1", "a1", ArgsA>>, <<"e1", "a2", ArgsB>>,
      <<"e2", "a1", ArgsA>>, <<"e2", "a2", ArgsB>> }

\* urlparse(uri).port and urlparse(uri).path of the redirect URIs above; a path
\* is the sequence of its segments and slashes.
UrlPort(uri) ==
    IF uri = "http://localhost:53593/callback" THEN "53593" ELSE "53594"

UrlPath(uri) ==
    IF uri = "http://localhost:53593/callback"
    THEN <<"/", "callback">>
    ELSE <<"/", "cb", "/">>

\* urlparse(auth_endpoint).hostname
UrlHostname(auth) == IF auth = "a1" THEN "host1" ELSE "host2"

\* " ".join(s.strip("' ") for s in scopes).strip("[]'")
JoinScopes(scopes) == IF scopes = <<>> THEN "" ELSE "all"

\* str.strip("/") on a path
RECURSIVE LStrip(_)
LStrip(p) == IF p # <<>> /\ Head(p) = "/" THEN LStrip(Tail(p)) ELSE p

RECURSIVE RStrip(_)
RStrip(p) ==
    IF p # <<>> /\ p[Len(p)] = "/" THEN RStrip(SubSeq(p, 1, Len(p) - 1)) ELSE p

Strip(p) == RStrip(LStrip(p))

\* dict.update
DictUpdate(d, u) ==
    [k \in DOMAIN d \cup DOMAIN u |-> IF k \in DOMAIN u THEN u[k] ELSE d[k]]

\* sha256 + urlsafe_b64encode + removal of "=": one challenge per verifier
_create_code_challenge(code_verifier) ==
    CASE code_verifier = "v1" -> "S256(v1)"
      [] code_verifier = "v2" -> "S256(v2)"
      [] code_verifier = "v3" -> "S256(v3)"
      [] OTHER -> "S256(v4)"

VARIABLES
    heap,         \* the AuthorizationClient objects, by identity 1..Len(heap)
    _instances,   \* _SingletonPerEndpoint._instances: key -> identity
    constructed,  \* history: what each AuthorizationClient(...) call returned
    pc,           \* where the caller's one in-flight call stands
    cur,          \* the instance (self) of the in-flight or last call
    calls,        \* calls begun so far
    parentSocks,  \* ports of listening sockets open in the calling process
    srvPort,      \* port of this flow attempt's OAuthHTTPServer, or None
    child,        \* server_process: "none", "listening", "exited", "terminated"
    childSock,    \* the forked process's copy of the listening socket is open
    backlog,      \* connections queued on the attempt's socket, not yet accepted
    served,       \* what do_GET did for each request handled in this attempt
    q,            \* the multiprocessing queue of this attempt
    nPuts,        \* history: puts on q in this attempt
    nGets,        \* history: q.get() returns in this attempt
    auth_code,    \* the value q.get() returned: <<>> before, <<code>> after
    browser,      \* the URLs handed to webbrowser.open_new_tab in this attempt
    posts,        \* POSTs to the token endpoint issued by the current call
    resp,         \* the token endpoint's answer being processed: <<>> or <<r>>
    cred_arg,     \* the credentials argument of refresh_access_token (optional)
    result,       \* how the last call ended: [kind |-> "none" | "return" | "raise"]
    _code_verifier_length,  \* the module global of that name
    generated,    \* the last _generate_code_verifier() call: <<>> or <<g>>
    threads       \* the threads inside _SingletonPerEndpoint.__call__

vars == <<heap, _instances, constructed, pc, cur, calls, parentSocks, srvPort,
          child, childSock, backlog, served, q, nPuts, nGets, auth_code,
          browser, posts, resp, cred_arg, result, _code_verifier_length,
          generated, threads>>

registryVars == <<heap, _instances, constructed>>
socketVars == <<parentSocks, srvPort, childSock, backlog>>
listenerVars == <<child, served, q, nPuts>>
callVars == <<pc, cur, calls, nGets, auth_code, browser, posts, resp, cred_arg,
              result>>
pkceVars == <<_code_verifier_length, generated>>
flowVars == <<socketVars, listenerVars, callVars>>

\* _code_verifier_length as the module sets it.
CodeVerifierLength == 64

Threads == 1..MaxThreads

\* A thread that is not inside AuthorizationClient(...).
NoThread == [pc |-> "ready", call |-> <<>>, obj |-> 0, ret |-> 0]

\* The module as imported: nothing generated yet, no thread in __call__.
Imported ==
    /\ _code_verifier_length = CodeVerifierLength
    /\ generated = <<>>
    /\ threads = [t \in Threads |-> NoThread]

\* No call is in progress and none has been made.
NoCall ==
    /\ pc = "idle"
    /\ cur = 0
    /\ calls = 0
    /\ parentSocks = {}
    /\ srvPort = None
    /\ child = "none"
    /\ childSock = FALSE
    /\ backlog = 0
    /\ served = <<>>
    /\ q = <<>>
    /\ nPuts = 0
    /\ nGets = 0
    /\ auth_code = <<>>
    /\ browser = <<>>
    /\ posts = <<>>
    /\ resp = <<>>
    /\ cred_arg = <<>>
    /\ result = [kind |-> "none"]

\* The process before any AuthorizationClient is made.
Init ==
    /\ heap = <<>>
    /\ _instances = <<>>
    /\ constructed = {}
    /\ NoCall
    /\ Imported

\* The caller starts its next operation: the locals of the call before
\* (queue, server and process objects, dequeued code, response) are dead and
\* what was observed of it is forgotten.  A listening socket the finished call
\* left open stays in parentSocks.
ForgetLastCall ==
    /\ q' = <<>> /\ nPuts' = 0 /\ nGets' = 0 /\ served' = <<>>
    /\ auth_code' = <<>> /\ browser' = <<>> /\ resp' = <<>>
    /\ child' = "none" /\ childSock' = FALSE /\ backlog' = 0

(***************************************************************************)
(* The registry: _SingletonPerEndpoint and AuthorizationClient.__init__.   *)
(***************************************************************************)
ParamNames == <<"endpoint", "auth_endpoint", "token_endpoint", "scopes",
                "client_id", "redirect_uri", "endpoint_metadata">>

\* Python's binding of a call's arguments to __init__'s parameters.
BindArgs(args, kwargs) ==
    [n \in {ParamNames[i] : i \in 1..Len(ParamNames)} |->
        LET i == CHOOSE j \in 1..Len(ParamNames) : ParamNames[j] = n
        IN  IF i <= Len(args) THEN args[i] ELSE kwargs[n]]

\* The call AuthorizationClient(...) with the first npos arguments positional.
CallArgs(all, npos) == SubSeq(all, 1, npos)

CallKwargs(all, npos) ==
    [n \in {ParamNames[i] : i \in (npos + 1)..Len(ParamNames)} |->
        all[CHOOSE j \in 1..Len(ParamNames) : ParamNames[j] = n]]

\* The key __call__ looks up: args[0] if there are positional arguments, else
\* kwargs["auth_endpoint"].
RegistryKey(args, kwargs) ==
    IF args # <<>> THEN args[1] ELSE kwargs["auth_endpoint"]

\* The object __init__ leaves behind.
NewClient(a, code_verifier, state) ==
    LET code_challenge == _create_code_challenge(code_verifier)
    IN  [endpoint |-> a["endpoint"],
         auth_endpoint |-> a["auth_endpoint"],
         remote |-> IF a["endpoint_metadata"] = <<>>
                    THEN [endpoint |-> UrlHostname(a["auth_endpoint"]),
                          success_html |-> None]
                    ELSE a["endpoint_metadata"][1],
         token_endpoint |-> a["token_endpoint"],
         client_id |-> a["client_id"],
         scopes |-> a["scopes"],
         redirect_uri |-> a["redirect_uri"],
         code_verifier |-> code_verifier,
         code_challenge |-> code_challenge,
         state |-> state,
         params |-> [client_id |-> a["client_id"],
                     response_type |-> "code",
                     scope |-> JoinScopes(a["scopes"]),
                     redirect_uri |-> a["redirect_uri"],
                     state |-> state,
                     code_challenge |-> code_challenge,
                     code_challenge_method |-> "S256"]]

\* Mutant: a call whose key is registered runs __init__ again on the instance.
Call_Reinit(reg, in, npos) ==
    LET all == <<in[1], in[2], in[3].token_endpoint, in[3].scopes,
                 in[3].client_id, in[3].redirect_uri, in[3].endpoint_metadata>>
        args == CallArgs(all, npos)
        kwargs == CallKwargs(all, npos)
        endpoint == RegistryKey(args, kwargs)
        n == Len(reg.heap) + 1
        made == endpoint \notin DOMAIN reg.instances
        instances == IF made THEN reg.instances @@ (endpoint :> n)
                     ELSE reg.instances
        obj == NewClient(BindArgs(args, kwargs), _generate_code_verifier(n),
                         _generate_state_parameter(n))
    IN  [heap |-> IF made THEN Append(reg.heap, obj)
                  ELSE [reg.heap EXCEPT ![instances[endpoint]] = obj],
         instances |-> instances,
         constructed |-> reg.constructed \cup
                            {[auth_endpoint |-> in[2], id |-> instances[endpoint]]}]

\* AuthorizationClient(*args, **kwargs), the first npos arguments positional:
\* what _SingletonPerEndpoint.__call__ makes of the registry reg (the objects,
\* the _instances dict and the history of returned objects).
Call(reg, in, npos) ==
    LET all == <<in[1], in[2], in[3].token_endpoint, in[3].scopes,
                 in[3].client_id, in[3].redirect_uri, in[3].endpoint_metadata>>
        args == CallArgs(all, npos)
        kwargs == CallKwargs(all, npos)
        endpoint == RegistryKey(args, kwargs)
        n == Len(reg.heap) + 1
        made == endpoint \notin DOMAIN reg.instances
        instances == IF made THEN reg.instances @@ (endpoint :> n)
                     ELSE reg.instances
    IN  [heap |-> IF made
                  THEN Append(reg.heap,
                              NewClient(BindArgs(args, kwargs),
                                        _generate_code_verifier(n),
                                        _generate_state_parameter(n)))
                  ELSE reg.heap,
         instances |-> instances,
         constructed |-> reg.constructed \cup
                            {[auth_endpoint |-> in[2], id |-> instances[endpoint]]}]

Construct ==
    /\ \E in \in CallInputs, npos \in 0..2 :
        LET reg == Call([heap |-> heap, instances |-> _instances,
                         constructed |-> constructed], in, npos)
        IN  /\ pc = "idle"
            /\ Len(reg.heap) <= MaxInstances
            /\ heap' = reg.heap
            /\ _instances' = reg.instances
            /\ constructed' = reg.constructed
            /\ ForgetLastCall
            /\ srvPort' = None /\ posts' = <<>> /\ cred_arg' = <<>>
            /\ result' = [kind |-> "none"]
            /\ cur' = 0
            /\ UNCHANGED <<pc, calls, parentSocks>>
    /\ UNCHANGED <<pkceVars, threads>>

(***************************************************************************)
(* _SingletonPerEndpoint.__call__ statement by statement, for threads that *)
(* call AuthorizationClient(...) at the same time.  The interpreter may    *)
(* switch threads between any two statements, and inside __init__.         *)
(***************************************************************************)
\* The calls a thread may make: an argument list, and how many of its
\* arguments are positional.
CallShapes == { [in |-> in, npos |-> npos] : in \in CallInputs, npos \in 0..2 }

AllArgs(in) ==
    <<in[1], in[2], in[3].token_endpoint, in[3].scopes, in[3].client_id,
      in[3].redirect_uri, in[3].endpoint_metadata>>

\* Lines 157-163: the key the call looks up.
KeyOfCall(c) ==
    RegistryKey(CallArgs(AllArgs(c.in), c.npos), CallKwargs(AllArgs(c.in), c.npos))

\* The thread enters __call__ and computes the key.
ThreadEnter(t) ==
    /\ threads[t].pc = "ready"
    /\ pc = "idle"
    /\ \E c \in CallShapes :
        threads' = [threads EXCEPT ![t] =
                      [pc |-> "test", call |-> <<c>>, obj |-> 0, ret |-> 0]]
    /\ UNCHANGED <<registryVars, flowVars, pkceVars>>

\* Line 164: if endpoint not in self._instances
ThreadTest(t) ==
    /\ threads[t].pc = "test"
    /\ threads' = [threads EXCEPT ![t].pc =
                      IF KeyOfCall(threads[t].call[1]) \notin DOMAIN _instances
                      THEN "init" ELSE "return"]
    /\ UNCHANGED <<registryVars, flowVars, pkceVars>>

\* Lines 165-167, right-hand side: super().__call__ makes the object.
ThreadInit(t) ==
    /\ threads[t].pc = "init"
    /\ Len(heap) < MaxInstances
    /\ LET c == threads[t].call[1]
           n == Len(heap) + 1
       IN  /\ heap' = Append(heap,
                         NewClient(BindArgs(CallArgs(AllArgs(c.in), c.npos),
                                            CallKwargs(AllArgs(c.in), c.npos)),
                                   _generate_code_verifier(n),
                                   _generate_state_parameter(n)))
           /\ threads' = [threads EXCEPT ![t].pc = "store", ![t].obj = n]
    /\ UNCHANGED <<_instances, constructed, flowVars, pkceVars>>

\* Lines 165-167, the assignment: self._instances[endpoint] = the object.
ThreadStore(t) ==
    /\ threads[t].pc = "store"
    /\ _instances' =
          (KeyOfCall(threads[t].call[1]) :> threads[t].obj) @@ _instances
    /\ threads' = [threads EXCEPT ![t].pc = "return"]
    /\ UNCHANGED <<heap, constructed, flowVars, pkceVars>>

\* Line 168: return self._instances[endpoint]
ThreadReturn(t) ==
    /\ threads[t].pc = "return"
    /\ LET id == _instances[KeyOfCall(threads[t].call[1])]
       IN  /\ threads' = [threads EXCEPT ![t].pc = "done", ![t].ret = id]
           /\ constructed' = constructed \cup
                 {[auth_endpoint |-> threads[t].call[1].in[2], id |-> id]}
    /\ UNCHANGED <<heap, _instances, flowVars, pkceVars>>

(***************************************************************************)
(* Inputs of the flow: callback requests and token endpoint responses.     *)
(***************************************************************************)
\* dict(parse_qsl(url.query)) of a callback: code and state, each present or not
Queries ==
    UNION { [ks -> Codes \cup StateTokens] : ks \in SUBSET {"code", "state"} }

WellTypedQuery(qs) ==
    /\ "code" \in DOMAIN qs => qs["code"] \in Codes
    /\ "state" \in DOMAIN qs => qs["state"] \in StateTokens

RequestPaths == { <<"/", "callback">>, <<"/", "cb">> }

Requests ==
    { [path |-> p, query |-> qs] :
        p \in RequestPaths, qs \in { x \in Queries : WellTypedQuery(x) } }

\* resp.json() of a token response: any of the three keys may be missing
TokenBodies ==
    { [k \in ks |-> IF k = "access_token" THEN "tok"
                    ELSE IF k = "refresh_token" THEN "ref" ELSE "3600"] :
        ks \in SUBSET {"access_token", "refresh_token", "expires_in"} }

OK == 200
NOT_FOUND == 404
\* A redirect is not followed (allow_redirects=False): the 302 is the response.
FOUND == 302

\* The answers of the token endpoint.  body is the content of the response as
\* resp.json() would read it; a non-200 answer may have a body too, here an
\* empty one and one that would parse as a full token response.
TokenResponses ==
    { [status_code |-> OK, body |-> b] : b \in TokenBodies }
        \cup { [status_code |-> NOT_FOUND, body |-> <<>>],
               [status_code |-> FOUND,
                body |-> [access_token |-> "tok", refresh_token |-> "ref",
                          expires_in |-> "3600"]] }

\* The credentials refresh_access_token may be handed
RefreshArgs ==
    { [access_token |-> "tok", refresh_token |-> r, for_endpoint |-> "e1",
       expires_in |-> "3600"] : r \in {None, "ref"} }

\* Errors, by the exception the code raises
StateMismatch == "ValueError: Unexpected state parameter"
MalformedTokenResponse == "ValueError: Expected access_token in response"
TokenExchangeFailed == "Exception: Failed to request access token"
NoRefreshToken == "ValueError: no refresh token available"
RefreshTokenExpired == "AccessTokenNotFoundError: Non-200 from refresh"
ExpiresInUnbound == "UnboundLocalError: expires_in"
AddressInUse == "OSError: Address already in use"
NotStarted == "AttributeError: NoneType has no attribute terminate"
KeyErrorCode == "KeyError: code"
KeyErrorState == "KeyError: state"

Raise(op, e) == [kind |-> "raise", op |-> op, error |-> e]
\* An exception whose message is formatted from parts of the response.
RaiseWith(op, e, detail) ==
    [kind |-> "raise", op |-> op, error |-> e, detail |-> detail]
Return(op, v) == [kind |-> "return", op |-> op, value |-> v]

(***************************************************************************)
(* The PKCE generator: _generate_code_verifier, character by character.    *)
(* The clients above hold a verifier by name (VerifierNames); here is what *)
(* the function computes from the bytes os.urandom gives it.               *)
(***************************************************************************)
\* The alphabet of base64.urlsafe_b64encode and its padding character.
B64Alphabet ==
    <<"A", "B", "C", "D", "E", "F", "G", "H", "I", "J", "K", "L", "M",
      "N", "O", "P", "Q", "R", "S", "T", "U", "V", "W", "X", "Y", "Z",
      "a", "b", "c", "d", "e", "f", "g", "h", "i", "j", "k", "l", "m",
      "n", "o", "p", "q", "r", "s", "t", "u", "v", "w", "x", "y", "z",
      "0", "1", "2", "3", "4", "5", "6", "7", "8", "9", "-", "_">>

B64Pad == "="

\* The characters the pattern [^a-zA-Z0-9_\-.~]+ leaves in place.
VerifierChars ==
    { B64Alphabet[i] : i \in 1..62 } \cup {"_", "-", ".", "~"}

\* The four 6-bit groups of three bytes, as characters.
B64Group(b1, b2, b3) ==
    LET n == b1 * 65536 + b2 * 256 + b3
    IN  <<B64Alphabet[(n \div 262144) + 1],
          B64Alphabet[((n \div 4096) % 64) + 1],
          B64Alphabet[((n \div 64) % 64) + 1],
          B64Alphabet[(n % 64) + 1]>>

RECURSIVE urlsafe_b64encode(_)
urlsafe_b64encode(bytes) ==
    IF Len(bytes) = 0 THEN <<>>
    ELSE IF Len(bytes) = 1
    THEN SubSeq(B64Group(bytes[1], 0, 0), 1, 2) \o <<B64Pad, B64Pad>>
    ELSE IF Len(bytes) = 2
    THEN SubSeq(B64Group(bytes[1], bytes[2], 0), 1, 3) \o <<B64Pad>>
    ELSE B64Group(bytes[1], bytes[2], bytes[3])
            \o urlsafe_b64encode(SubSeq(bytes, 4, Len(bytes)))

\* re.sub(r"[^a-zA-Z0-9_\-.~]+", "", code_verifier)
CleanVerifier(chars) == SelectSeq(chars, LAMBDA c : c \in VerifierChars)

\* os.urandom(n): n bytes; the model draws them from a few repeating patterns.
ByteFills == { <<0>>, <<255>>, <<251, 239, 190>>, <<105, 183, 29, 4>> }

urandom(n) ==
    { [i \in 1..n |-> fill[((i - 1) % Len(fill)) + 1]] : fill \in ByteFills }

VerifierTooShort == "ValueError: Verifier too short"
VerifierTooLong == "ValueError: Verifier too long"

\* Mutant: the length of the cleaned string is not checked.
VerifierLengthError_Unchecked(n) == <<>>

\* Lines 38-41: the error for a cleaned string of n characters, if any.
VerifierLengthError(n) ==
    IF n < 43 THEN <<VerifierTooShort>>
    ELSE IF n > 128 THEN <<VerifierTooLong>>
    ELSE <<>>

\* _generate_code_verifier() when os.urandom returns random.
CodeVerifierFrom(random) ==
    LET code_verifier == CleanVerifier(urlsafe_b64encode(random))
        e == VerifierLengthError(Len(code_verifier))
    IN  IF e # <<>>
        THEN Raise("_generate_code_verifier", e[1])
        ELSE Return("_generate_code_verifier", code_verifier)

GenerateCodeVerifier ==
    /\ \E random \in urandom(_code_verifier_length) :
        generated' = <<[random |-> random, outcome |-> CodeVerifierFrom(random)]>>
    /\ UNCHANGED <<registryVars, flowVars, _code_verifier_length, threads>>

(***************************************************************************)
(* The token exchanger.                                                    *)
(***************************************************************************)
\* Mutant: the check for "access_token" left out, the field read with .get().
CredentialsFromResponse_Unchecked(self, op, response_body) ==
    Return(op,
        [access_token |-> IF "access_token" \in DOMAIN response_body
                          THEN response_body["access_token"]
                          ELSE None,
         refresh_token |-> IF "refresh_token" \in DOMAIN response_body
                           THEN response_body["refresh_token"]
                           ELSE None,
         for_endpoint |-> self.endpoint,
         expires_in |-> IF "expires_in" \in DOMAIN response_body
                        THEN response_body["expires_in"]
                        ELSE None])

\* _credentials_from_response: the Credentials, or the error raised
_credentials_from_response(self, op, response_body) ==
    IF "access_token" \notin DOMAIN response_body
    THEN Raise(op, MalformedTokenResponse)
    ELSE IF "expires_in" \notin DOMAIN response_body
    THEN Raise(op, ExpiresInUnbound)
    ELSE Return(op,
            [access_token |-> response_body["access_token"],
             refresh_token |-> IF "refresh_token" \in DOMAIN response_body
                               THEN response_body["refresh_token"]
                               ELSE None,
             for_endpoint |-> self.endpoint,
             expires_in |-> response_body["expires_in"]])

\* Mutant: the state comparison left out.
StateMatches_Unchecked(self, code) == TRUE

\* _request_access_token, line 279: the state comparison
StateMatches(self, code) == self.state = code.state

\* Mutant: the callback's state sent where its code belongs.
ParamsForExchange_WrongField(self, code) ==
    DictUpdate(self.params,
               [code |-> code.state,
                code_verifier |-> self.code_verifier,
                grant_type |-> "authorization_code"])

\* Mutant: a verifier drawn anew is sent instead of the client's own.
ParamsForExchange_RenewedVerifier(self, code) ==
    DictUpdate(self.params,
               [code |-> code.code,
                code_verifier |-> _generate_code_verifier(MaxInstances + 1),
                grant_type |-> "authorization_code"])

\* Mutant: the parameters are updated before the state is compared.
ParamsOnMismatch_Written(self, code) ==
    DictUpdate(self.params,
               [code |-> code.code,
                code_verifier |-> self.code_verifier,
                grant_type |-> "authorization_code"])

\* _request_access_token, lines 279-280: what self._params is when the state
\* comparison fails and the ValueError is raised.
ParamsOnMismatch(self, code) == self.params

\* _request_access_token, lines 281-287: what self._params is updated to
ParamsForExchange(self, code) ==
    DictUpdate(self.params,
               [code |-> code.code,
                code_verifier |-> self.code_verifier,
                grant_type |-> "authorization_code"])

\* Mutant: the status of the response is not looked at.
ExchangeOutcome_AnyStatus(self, r) ==
    _credentials_from_response(self, "get_creds_from_remote", r.body)

\* _request_access_token, lines 296-302: the outcome for a response.  The
\* message of the Exception holds resp.status_code and resp.content.
ExchangeOutcome(self, r) ==
    IF r.status_code # OK
    THEN RaiseWith("get_creds_from_remote", TokenExchangeFailed,
                   [status_code |-> r.status_code, content |-> r.body])
    ELSE _credentials_from_response(self, "get_creds_from_remote", r.body)

\* refresh_access_token, lines 346-351: the outcome for a response.  The
\* message of the AccessTokenNotFoundError holds resp.status_code.
RefreshOutcome(self, r) ==
    IF r.status_code # OK
    THEN RaiseWith("refresh_access_token", RefreshTokenExpired,
                   [status_code |-> r.status_code])
    ELSE _credentials_from_response(self, "refresh_access_token", r.body)

\* Mutant: the refresh token is not looked at before the request.
HasRefreshToken_Unchecked(credentials) == TRUE

\* refresh_access_token, line 332: credentials.refresh_token is not None
HasRefreshToken(credentials) == credentials.refresh_token # None

(***************************************************************************)
(* The callback listener: OAuthHTTPServer in the forked server_process.    *)
(***************************************************************************)
\* This attempt's listening socket is open in some process.
SocketOpen == srvPort # None /\ (srvPort \in parentSocks \/ childSock)

\* do_GET, line 96
PathMatches(path, redirect_path) == Strip(path) = Strip(redirect_path)

\* get_default_success_html(endpoint) of .default_html: a page made for the
\* endpoint label.
get_default_success_html(endpoint) == <<"default_success_html", endpoint>>

\* do_GET and handle_login for one request: what goes on the wire, what is put
\* on the queue, and whether handle_authorization_code closed the socket.
\* status is the code given to send_response; flushed tells whether
\* end_headers() wrote the buffered status line and headers to the client;
\* body is what was written to wfile after the headers, <<>> for nothing.
do_GET(self, request) ==
    IF PathMatches(request.path, UrlPath(self.redirect_uri))
    THEN IF "code" \notin DOMAIN request.query
         THEN [matched |-> TRUE, status |-> OK, flushed |-> TRUE, body |-> <<>>,
               put |-> <<>>, closed |-> FALSE, error |-> KeyErrorCode]
         ELSE IF "state" \notin DOMAIN request.query
         THEN [matched |-> TRUE, status |-> OK, flushed |-> TRUE, body |-> <<>>,
               put |-> <<>>, closed |-> FALSE, error |-> KeyErrorState]
         ELSE [matched |-> TRUE, status |-> OK, flushed |-> TRUE,
               body |-> IF self.remote.success_html = None
                        THEN get_default_success_html(self.remote.endpoint)
                        ELSE <<>>,
               put |-> <<[code |-> request.query["code"],
                          state |-> request.query["state"]]>>,
               closed |-> TRUE, error |-> None]
    ELSE [matched |-> FALSE, status |-> NOT_FOUND, flushed |-> FALSE,
          body |-> <<>>,
          put |-> <<>>, closed |-> FALSE, error |-> None]

\* Mutant: the listener serves requests in a loop (serve_forever).
AfterHandleRequest_Loop(reply) == [child |-> "listening", childSock |-> TRUE]

\* OAuthHTTPServer.handle_request serves a single request; the process target
\* then returns and the process exits, which closes its copy of the socket.
AfterHandleRequest(reply) == [child |-> "exited", childSock |-> FALSE]

\* A client (the browser following the redirect, or any other local program)
\* connects to the listening socket during the attempt: the kernel queues the
\* connection.  What it sends is read only once the listener accepts it, so
\* the request is drawn in HandleRequest.  Connections still queued when the
\* call ends are never accepted by anyone and are not followed further.
Connect ==
    /\ SocketOpen
    /\ pc \notin {"idle", "refresh_response"}
    /\ backlog < MaxBacklog
    /\ backlog' = backlog + 1
    /\ UNCHANGED <<registryVars, parentSocks, srvPort, childSock, listenerVars,
                   callVars>>
    /\ UNCHANGED <<pkceVars, threads>>

\* The server process accepts one connection and handles its request.
HandleRequest ==
    /\ \E request \in Requests :
        /\ child = "listening"
        /\ childSock
        /\ backlog > 0
        /\ LET reply == do_GET(heap[cur], request)
               after == AfterHandleRequest(reply)
           IN  /\ served' = Append(served, reply)
               /\ q' = q \o reply.put
               /\ nPuts' = nPuts + Len(reply.put)
               /\ child' = after.child
               /\ childSock' = after.childSock
        /\ backlog' = backlog - 1
        /\ UNCHANGED <<registryVars, parentSocks, srvPort, callVars>>
    /\ UNCHANGED <<pkceVars, threads>>

(***************************************************************************)
(* get_creds_from_remote.  pc names the statement the caller executes next.*)
(***************************************************************************)
\* Mutant: the browser is opened before the listener process is started.
TryOrder_BrowserFirst == <<"open", "start", "get">>

\* The statements of the try block, lines 320-326, in program order.
TryOrder == <<"start", "open", "get">>

StepAfter(step) ==
    LET i == CHOOSE j \in 1..Len(TryOrder) : TryOrder[j] = step
    IN  IF i < Len(TryOrder) THEN TryOrder[i + 1] ELSE "exchange"

\* finally: server_process.terminate() on a started process
Terminated(ch) == IF ch = "listening" THEN "terminated" ELSE ch

\* What the finally clause, line 329, leaves of the listener's resources: the
\* child process and its socket, and the sockets of the calling process.
Finally(ch, socks, port) ==
    [child |-> Terminated(ch), childSock |-> FALSE, parentSocks |-> socks]

\* Leaving the try block with outcome r.
Leave(r) ==
    LET f == Finally(child, parentSocks, srvPort)
    IN  /\ child' = f.child
        /\ childSock' = f.childSock
        /\ parentSocks' = f.parentSocks
        /\ backlog' = 0
        /\ result' = r
        /\ pc' = "idle"

BrowserLaunchFailed == "webbrowser.Error: could not launch a browser"

\* Mutant: a browser that cannot be launched makes the step raise.
LaunchOutcome_Raises(launched) ==
    IF launched THEN <<>> ELSE <<BrowserLaunchFailed>>

\* Line 255: the exception _webbrowser.open_new_tab(endpoint) leaves the
\* statement with, if any.  open_new_tab returns False when no browser could
\* be launched, and the statement drops the value.
LaunchOutcome(launched) == <<>>

\* Lines 310-317: the queue, the server (which binds and listens in
\* HTTPServer.__init__), the process object.
GetCredsBegin ==
    /\ \E i \in 1..Len(heap) :
        /\ pc = "idle"
        /\ calls < MaxCalls
        /\ calls' = calls + 1
        /\ cur' = i
        /\ ForgetLastCall
        /\ posts' = <<>> /\ cred_arg' = <<>>
        /\ LET port == UrlPort(heap[i].redirect_uri)
           IN  IF port \in parentSocks
               THEN /\ result' = Raise("get_creds_from_remote", AddressInUse)
                    /\ pc' = "idle"
                    /\ srvPort' = None
                    /\ UNCHANGED parentSocks
               ELSE /\ result' = [kind |-> "none"]
                    /\ pc' = TryOrder[1]
                    /\ srvPort' = port
                    /\ parentSocks' = parentSocks \cup {port}
        /\ UNCHANGED registryVars
    /\ UNCHANGED <<pkceVars, threads>>

\* Line 320: server_process.start() forks; the child inherits the socket and
\* runs server.handle_request(q).  When the fork fails, start() raises and
\* the finally clause calls terminate() on a process that has no _popen.
StartListener ==
    /\ pc = "start"
    /\ \E ok \in BOOLEAN :
        IF ok
        THEN /\ child' = "listening"
             /\ childSock' = TRUE
             /\ pc' = StepAfter("start")
             /\ UNCHANGED <<parentSocks, backlog, result>>
        ELSE /\ result' = Raise("get_creds_from_remote", NotStarted)
             /\ pc' = "idle"
             /\ backlog' = 0
             /\ UNCHANGED <<child, childSock, parentSocks>>
    /\ UNCHANGED <<registryVars, srvPort, served, q, nPuts, cur, calls, nGets,
                   auth_code, browser, posts, resp, cred_arg>>
    /\ UNCHANGED <<pkceVars, threads>>

\* Line 323: _request_authorization_code opens auth_endpoint?urlencode(_params).
\* bound and started are history: the listener's state as the URL is opened.
OpenBrowser ==
    /\ pc = "open"
    /\ \E launched \in BOOLEAN :
        /\ browser' = Append(browser,
              [endpoint |-> heap[cur].auth_endpoint,
               query |-> heap[cur].params,
               launched |-> launched,
               bound |-> SocketOpen,
               started |-> child # "none"])
        /\ LET e == LaunchOutcome(launched)
           IN  IF e = <<>>
               THEN /\ pc' = StepAfter("open")
                    /\ UNCHANGED <<child, childSock, parentSocks, backlog, result>>
               ELSE Leave(Raise("get_creds_from_remote", e[1]))
    /\ UNCHANGED <<registryVars, srvPort, served, q, nPuts, cur, calls, nGets,
                   auth_code, posts, resp, cred_arg>>
    /\ UNCHANGED <<pkceVars, threads>>

\* Line 326: q.get() returns once the queue holds an item; there is no timeout.
QueueGet ==
    /\ pc = "get"
    /\ q # <<>>
    /\ auth_code' = <<Head(q)>>
    /\ q' = Tail(q)
    /\ nGets' = nGets + 1
    /\ pc' = StepAfter("get")
    /\ UNCHANGED <<registryVars, socketVars, child, served, nPuts, cur, calls,
                   browser, posts, resp, cred_arg, result>>
    /\ UNCHANGED <<pkceVars, threads>>

\* _request_access_token up to the POST, lines 279-295.
RequestAccessToken ==
    /\ pc = "exchange"
    /\ IF ~StateMatches(heap[cur], auth_code[1])
       THEN /\ Leave(Raise("get_creds_from_remote", StateMismatch))
            /\ heap' = [heap EXCEPT ![cur].params =
                            ParamsOnMismatch(heap[cur], auth_code[1])]
            /\ UNCHANGED posts
       ELSE /\ heap' = [heap EXCEPT ![cur].params =
                            ParamsForExchange(heap[cur], auth_code[1])]
            /\ posts' = Append(posts, [url |-> heap[cur].token_endpoint,
                                       data |-> heap'[cur].params])
            /\ pc' = "response"
            /\ UNCHANGED <<child, childSock, parentSocks, backlog, result>>
    /\ UNCHANGED <<_instances, constructed, srvPort, served, q, nPuts, cur, calls,
                   nGets, auth_code, browser, resp, cred_arg>>
    /\ UNCHANGED <<pkceVars, threads>>

\* The token endpoint answers; lines 296-302 and the finally clause.
ExchangeResponse ==
    /\ pc = "response"
    /\ \E r \in TokenResponses :
        /\ resp' = <<r>>
        /\ Leave(ExchangeOutcome(heap[cur], r))
    /\ UNCHANGED <<registryVars, srvPort, served, q, nPuts, cur, calls, nGets,
                   auth_code, browser, posts, cred_arg>>
    /\ UNCHANGED <<pkceVars, threads>>

(***************************************************************************)
(* refresh_access_token.                                                   *)
(***************************************************************************)
RefreshBegin ==
    /\ \E i \in 1..Len(heap), credentials \in RefreshArgs :
        /\ pc = "idle"
        /\ calls < MaxCalls
        /\ calls' = calls + 1
        /\ cur' = i
        /\ cred_arg' = <<credentials>>
        /\ ForgetLastCall
        /\ srvPort' = None
        /\ IF ~HasRefreshToken(credentials)
           THEN /\ result' = Raise("refresh_access_token", NoRefreshToken)
                /\ posts' = <<>>
                /\ pc' = "idle"
           ELSE /\ result' = [kind |-> "none"]
                /\ posts' = <<[url |-> heap[i].token_endpoint,
                               data |-> [grant_type |-> "refresh_token",
                                         client_id |-> heap[i].client_id,
                                         refresh_token |-> credentials.refresh_token]]>>
                /\ pc' = "refresh_response"
        /\ UNCHANGED <<registryVars, parentSocks>>
    /\ UNCHANGED <<pkceVars, threads>>

RefreshResponse ==
    /\ pc = "refresh_response"
    /\ \E r \in TokenResponses :
        /\ resp' = <<r>>
        /\ result' = RefreshOutcome(heap[cur], r)
    /\ pc' = "idle"
    /\ UNCHANGED <<registryVars, socketVars, listenerVars, cur, calls, nGets,
                   auth_code, browser, posts, cred_arg>>
    /\ UNCHANGED <<pkceVars, threads>>

(***************************************************************************)
(* The runtime: an OAuthHTTPServer object no frame refers to any more is   *)
(* finalised at a time of the interpreter's choosing, which closes its     *)
(* socket.                                                                 *)
(***************************************************************************)
Collect ==
    /\ \E port \in parentSocks :
        /\ pc = "idle" \/ port # srvPort
        /\ parentSocks' = parentSocks \ {port}
        /\ UNCHANGED <<registryVars, srvPort, childSock, backlog, listenerVars,
                       callVars>>
    /\ UNCHANGED <<pkceVars, threads>>

\* The operations on clients that exist.
FlowNext ==
    \/ GetCredsBegin
    \/ StartListener
    \/ OpenBrowser
    \/ QueueGet
    \/ RequestAccessToken
    \/ ExchangeResponse
    \/ RefreshBegin
    \/ RefreshResponse
    \/ Connect
    \/ HandleRequest
    \/ Collect

Next ==
    \/ Construct
    \/ FlowNext

Spec == Init /\ [][Next]_vars

\* The process after two constructions, of two clients that differ in every
\* argument: AuthorizationClient(endpoint="e1", auth_endpoint="a1", ...) and
\* AuthorizationClient(endpoint="e2", auth_endpoint="a2", ...).
TwoClients ==
    Call(Call([heap |-> <<>>, instances |-> <<>>, constructed |-> {}],
              <<"e1", "a1", ArgsA>>, 0),
         <<"e2", "a2", ArgsB>>, 0)

FlowInit ==
    /\ heap = TwoClients.heap
    /\ _instances = TwoClients.instances
    /\ constructed = TwoClients.constructed
    /\ NoCall
    /\ Imported

\* The flows of the two clients, no further construction.
FlowSpec == FlowInit /\ [][FlowNext]_vars

\* The process after two constructions, the first with positional arguments:
\* AuthorizationClient("e1", "a1", ...), registered under "e1", and
\* AuthorizationClient(endpoint="e2", auth_endpoint="a2", ...), under "a2".
MixedClients ==
    Call(Call([heap |-> <<>>, instances |-> <<>>, constructed |-> {}],
              <<"e1", "a1", ArgsA>>, 2),
         <<"e2", "a2", ArgsB>>, 0)

ResolveInit ==
    /\ heap = MixedClients.heap
    /\ _instances = MixedClients.instances
    /\ constructed = MixedClients.constructed
    /\ NoCall
    /\ Imported

\* A construction that resolves to a registered instance: no object is made.
Resolve == Construct /\ Len(heap') = Len(heap)

ResolveNext ==
    \/ Resolve
    \/ FlowNext

\* Resolving constructions and the flows, from two registered clients on.
ResolveSpec == ResolveInit /\ [][ResolveNext]_vars

\* Threads constructing clients at the same time, each making one call.
RaceNext ==
    \/ \E t \in Threads : ThreadEnter(t)
    \/ \E t \in Threads : ThreadTest(t)
    \/ \E t \in Threads : ThreadInit(t)
    \/ \E t \in Threads : ThreadStore(t)
    \/ \E t \in Threads : ThreadReturn(t)

RaceSpec == Init /\ [][RaceNext]_vars

\* _generate_code_verifier alone, for every setting of _code_verifier_length
\* up to MaxVerifierBytes (the module sets 64).
VerifierInit ==
    /\ heap = <<>>
    /\ _instances = <<>>
    /\ constructed = {}
    /\ NoCall
    /\ _code_verifier_length \in 0..MaxVerifierBytes
    /\ generated = <<>>
    /\ threads = [t \in Threads |-> NoThread]

VerifierSpec == VerifierInit /\ [][GenerateCodeVerifier]_vars

\* The orchestrator and the listener process are scheduled whenever they can
\* take a step, and the token endpoint answers; nothing obliges a client to
\* connect to the callback port or the caller to make another call.
FairFlowSpec ==
    /\ FlowSpec
    /\ WF_vars(StartListener)
    /\ WF_vars(OpenBrowser)
    /\ WF_vars(QueueGet)
    /\ WF_vars(RequestAccessToken)
    /\ WF_vars(ExchangeResponse)
    /\ WF_vars(RefreshResponse)
    /\ WF_vars(HandleRequest)

(***************************************************************************)
(* Properties.                                                             *)
(***************************************************************************)
InFlight == pc \in {"start", "open", "get", "exchange", "response"}

GetCredsEnded ==
    pc = "idle" /\ result.kind # "none" /\ result.op = "get_creds_from_remote"

Delivered == auth_code # <<>>

\* C1: a callback delivered to get_creds_from_remote() whose state differs
\* from the client's state token makes the call fail with the state-mismatch
\* error, and no POST to the token endpoint is issued in that attempt.
C1_StateMismatchNeverPosts ==
    (Delivered /\ auth_code[1].state # heap[cur].state) =>
        /\ posts = <<>>
        /\ pc \in {"exchange", "idle"}
        /\ pc = "idle" => result = Raise("get_creds_from_remote", StateMismatch)

C1_Witness ==
    /\ GetCredsEnded
    /\ Delivered
    /\ auth_code[1].state # heap[cur].state
    /\ result.kind = "raise"

\* C2: once the listener has handled a path-matching callback carrying code C
\* and the client's own state, the call does not end without the token
\* exchange, and the authorization_code POST carries exactly C and the
\* client's own code verifier.
C2_ExchangeCarriesCallbackCode ==
    \A k \in DOMAIN served :
        (/\ served[k].put # <<>>
         /\ served[k].put[1].state = heap[cur].state
         /\ pc \in {"response", "idle"}) =>
            /\ Len(posts) = 1
            /\ posts[1].url = heap[cur].token_endpoint
            /\ posts[1].data["grant_type"] = "authorization_code"
            /\ posts[1].data["code"] = served[k].put[1].code
            /\ posts[1].data["code_verifier"] = heap[cur].code_verifier

C2_Witness ==
    /\ GetCredsEnded
    /\ result.kind = "return"
    /\ served # <<>> /\ served[1].put # <<>>
    /\ served[1].put[1].state = heap[cur].state
    /\ posts # <<>>

\* C3: two constructions with the same auth_endpoint return the identical
\* instance and two with different auth_endpoint values return distinct
\* instances, whatever the other arguments and however they are passed.
C3_OneInstancePerAuthEndpoint ==
    \A x, y \in constructed :
        (x.auth_endpoint = y.auth_endpoint) <=> (x.id = y.id)

\* C4: in one flow attempt the listener processes at most one path-matching
\* callback, writes at most once to the queue, the orchestrator reads at most
\* once, and no request is processed after a path-matching one.
C4_AtMostOneCallback ==
    /\ nPuts <= 1
    /\ nGets <= 1
    /\ Cardinality({k \in DOMAIN served : served[k].matched}) <= 1
    /\ \A k \in DOMAIN served : served[k].matched => k = Len(served)
    /\ Len(q) + nGets = nPuts

C4_Witness ==
    /\ InFlight
    /\ served # <<>> /\ served[1].matched /\ nPuts = 1
    /\ child = "exited"
    /\ backlog > 0

\* C5: the callback port is not bound at construction, and whenever
\* get_creds_from_remote() has returned or raised, the listener is stopped and
\* the port is released in every process that held it.
C5_PortReleasedWhenCallEnds ==
    /\ calls = 0 => parentSocks = {}
    /\ GetCredsEnded =>
        /\ child # "listening"
        /\ ~childSock
        /\ srvPort \notin parentSocks

\* C6: a call waiting for the callback to which no Authorization Code is ever
\* delivered eventually ends (with the timeout error) instead of blocking
\* forever.
C6_WaitIsBounded ==
    (pc = "get") ~> (q # <<>> \/ Delivered \/ GetCredsEnded)

\* C7: whenever the authorization URL is opened, the callback port is already
\* bound and the listener process has already been started.
C7_ListenerBeforeBrowser ==
    \A k \in DOMAIN browser : browser[k].bound /\ browser[k].started

C7_Witness ==
    /\ pc = "get"
    /\ Len(browser) = 1
    /\ child = "listening"
    /\ srvPort \in parentSocks

\* C8: a request whose path does not match is answered 404 and leaves the
\* listener listening, so that a later path-matching callback of the same
\* attempt is still accepted.
C8_NonMatchingKeepsListening ==
    \A k \in DOMAIN served :
        ~served[k].matched =>
            /\ served[k].status = NOT_FOUND
            /\ (InFlight /\ k = Len(served)) => (child = "listening" /\ childSock)

\* C9: every handled request whose path matches puts an Authorization Code on
\* the queue, whatever its query string.
C9_MatchingAlwaysDelivers ==
    \A k \in DOMAIN served : served[k].matched => served[k].put # <<>>

\* C10: in the exchange and in the refresh path alike, a 200 response without
\* access_token ends the call with the malformed-response error; no
\* Credentials value is returned.
C10_NoAccessTokenIsAnError ==
    (/\ resp # <<>>
     /\ resp[1].status_code = OK
     /\ "access_token" \notin DOMAIN resp[1].body) =>
        /\ pc = "idle"
        /\ result.kind = "raise"
        /\ result.error = MalformedTokenResponse

C10_Witness ==
    /\ resp # <<>>
    /\ resp[1].status_code = OK
    /\ "access_token" \notin DOMAIN resp[1].body
    /\ "refresh_token" \in DOMAIN resp[1].body
    /\ result.kind = "raise"
    /\ result.op = "refresh_access_token"

\* C11: a 200 token response that has access_token ends the call with a
\* Credentials value, whichever of refresh_token and expires_in the response
\* has: the access token is the response's, an optional field the response
\* lacks is None, and for_endpoint is the client's endpoint.
C11_AccessTokenYieldsCredentials ==
    (/\ resp # <<>>
     /\ resp[1].status_code = OK
     /\ "access_token" \in DOMAIN resp[1].body) =>
        /\ pc = "idle"
        /\ result.kind = "return"
        /\ result.value.access_token = resp[1].body["access_token"]
        /\ result.value.refresh_token =
              IF "refresh_token" \in DOMAIN resp[1].body
              THEN resp[1].body["refresh_token"] ELSE None
        /\ result.value.expires_in =
              IF "expires_in" \in DOMAIN resp[1].body
              THEN resp[1].body["expires_in"] ELSE None
        /\ result.value.for_endpoint = heap[cur].endpoint

\* C12: refresh_access_token called with credentials whose refresh_token is
\* None ends at once with the no-refresh-token error and issues no POST.
C12_NoRefreshTokenNoPost ==
    (cred_arg # <<>> /\ cred_arg[1].refresh_token = None) =>
        /\ pc = "idle"
        /\ result = Raise("refresh_access_token", NoRefreshToken)
        /\ posts = <<>>
        /\ resp = <<>>

C12_Witness ==
    /\ cred_arg # <<>>
    /\ cred_arg[1].refresh_token = None
    /\ result.kind = "raise"
    /\ result.op = "refresh_access_token"
    /\ calls > 1

\* C13: a non-200 answer of the token endpoint never yields Credentials.  The
\* exchange ends with the token-exchange error holding the status and the
\* body, the refresh with the distinct refresh-token-expired error holding the
\* status, whatever the body would parse to.
C13_Non200NeverYieldsCredentials ==
    (resp # <<>> /\ resp[1].status_code # OK) =>
        /\ pc = "idle"
        /\ result.kind = "raise"
        /\ result.op = "get_creds_from_remote" =>
              /\ result.error = TokenExchangeFailed
              /\ result.detail = [status_code |-> resp[1].status_code,
                                  content |-> resp[1].body]
        /\ result.op = "refresh_access_token" =>
              /\ result.error = RefreshTokenExpired
              /\ result.error # TokenExchangeFailed
              /\ result.detail.status_code = resp[1].status_code

C13_Witness ==
    /\ resp # <<>>
    /\ resp[1].status_code = FOUND
    /\ "access_token" \in DOMAIN resp[1].body
    /\ result.kind = "raise"
    /\ result.op = "get_creds_from_remote"

\* C14: every authorization URL opened by get_creds_from_remote(), also on an
\* instance that has completed a token exchange before, has exactly the query
\* parameters client_id, response_type=code, scope, redirect_uri, state,
\* code_challenge and code_challenge_method=S256: no code verifier, no
\* authorization code, no grant_type.
C14_AuthorizationUrlParameters ==
    \A k \in DOMAIN browser :
        /\ DOMAIN browser[k].query =
              {"client_id", "response_type", "scope", "redirect_uri", "state",
               "code_challenge", "code_challenge_method"}
        /\ browser[k].query["response_type"] = "code"
        /\ browser[k].query["code_challenge_method"] = "S256"

\* C15: the authorization_code POST has exactly the fields code,
\* code_verifier, client_id, redirect_uri and grant_type, and the refresh POST
\* exactly grant_type, client_id and refresh_token.
C15_TokenRequestFields ==
    \A k \in DOMAIN posts :
        DOMAIN posts[k].data =
            IF posts[k].data["grant_type"] = "authorization_code"
            THEN {"code", "code_verifier", "client_id", "redirect_uri",
                  "grant_type"}
            ELSE {"grant_type", "client_id", "refresh_token"}

\* The length of the base64 text of n bytes without its padding characters.
UnpaddedLength(n) == 4 * ((n + 2) \div 3) - ((3 - (n % 3)) % 3)

\* C16: every code verifier _generate_code_verifier returns has between 43
\* and 128 characters and is the whole cleaned string, neither cut nor
\* padded; when the cleaned string is shorter or longer the call raises and
\* returns nothing.
C16_VerifierLengthInRange ==
    generated # <<>> =>
        LET g == generated[1]
            n == UnpaddedLength(Len(g.random))
        IN  /\ g.outcome.kind = "return" =>
                  /\ Len(g.outcome.value) \in 43..128
                  /\ Len(g.outcome.value) = n
                  /\ \A k \in DOMAIN g.outcome.value :
                        g.outcome.value[k] \in VerifierChars
            /\ n \notin 43..128 => g.outcome.kind = "raise"

C16_Witness ==
    /\ generated # <<>>
    /\ Len(generated[1].random) = CodeVerifierLength
    /\ generated[1].outcome.kind = "return"
    /\ Len(generated[1].outcome.value) = 86

\* C17: of the concurrent constructions that name the same auth endpoint (and
\* look it up under that name), at most one creates an instance, and all of
\* them return the same instance.
C17_ConcurrentConstructionsShareOneInstance ==
    \A t, u \in Threads :
        (/\ threads[t].call # <<>>
         /\ threads[u].call # <<>>
         /\ threads[t].call[1].in[2] = threads[u].call[1].in[2]
         /\ KeyOfCall(threads[t].call[1]) = threads[t].call[1].in[2]
         /\ KeyOfCall(threads[u].call[1]) = threads[u].call[1].in[2]) =>
            /\ (threads[t].obj # 0 /\ threads[u].obj # 0) => t = u
            /\ (threads[t].ret # 0 /\ threads[u].ret # 0) =>
                  threads[t].ret = threads[u].ret

\* What a flow works with, apart from the request parameters.
FlowIdentity(self) ==
    [code_verifier |-> self.code_verifier,
     code_challenge |-> self.code_challenge,
     state |-> self.state,
     token_endpoint |-> self.token_endpoint,
     client_id |-> self.client_id,
     scopes |-> self.scopes,
     redirect_uri |-> self.redirect_uri]

\* C18: no step renews an existing instance: a construction that resolves to
\* it leaves its code verifier, code challenge, state token, token endpoint,
\* client id, scopes and redirect URI as they are, whatever the new arguments,
\* and so does every step of get_creds_from_remote().
C18_ExistingInstanceKept ==
    [][\A i \in DOMAIN heap :
          /\ i \in DOMAIN heap'
          /\ FlowIdentity(heap'[i]) = FlowIdentity(heap[i])]_vars

C18_Witness ==
    \E x \in constructed :
        /\ heap[x.id].auth_endpoint # x.auth_endpoint
        /\ heap[x.id].token_endpoint # "t2"
        /\ "code" \in DOMAIN heap[x.id].params
        /\ cur = x.id
        /\ pc = "get"
        /\ browser # <<>>

\* C19: when the browser could not be launched the attempt goes on: the
\* listener is running while the caller waits for the callback, the call does
\* not end before a callback has been dequeued, and a callback that the
\* listener then handles is dequeued like any other.
C19_LaunchFailureDoesNotAbort ==
    (browser # <<>> /\ ~browser[Len(browser)].launched) =>
        /\ pc \in {"get", "exchange", "response", "idle"}
        /\ (pc = "get" /\ served = <<>>) => (child = "listening" /\ childSock)
        /\ GetCredsEnded => Delivered
        /\ Delivered => (served # <<>> /\ <<auth_code[1]>> = served[Len(served)].put)

C19_Witness ==
    /\ browser # <<>>
    /\ ~browser[Len(browser)].launched
    /\ GetCredsEnded
    /\ Delivered
    /\ result.kind = "return"

\* C20: the listener answers a path-matching callback (one that carries code
\* and state) with 200 and the success payload as body (the success_html of
\* the endpoint metadata when there is one, else the default payload for the
\* endpoint label), and a request for any other path with 404, an empty body
\* and nothing put on the queue.
C20_CallbackResponses ==
    \A k \in DOMAIN served :
        /\ (served[k].matched /\ served[k].put # <<>>) =>
              /\ served[k].status = OK
              /\ served[k].flushed
              /\ served[k].body =
                    IF heap[cur].remote.success_html = None
                    THEN get_default_success_html(heap[cur].remote.endpoint)
                    ELSE <<heap[cur].remote.success_html>>
        /\ ~served[k].matched =>
              /\ served[k].status = NOT_FOUND
              /\ served[k].flushed
              /\ served[k].body = <<>>
              /\ served[k].put = <<>>

\* C21: in every state, the code_challenge in each client's request
\* parameters is the challenge of the client's own code verifier, and the
\* code_verifier of every authorization_code POST is that same verifier.
C21_ChallengeBelongsToVerifier ==
    /\ \A i \in DOMAIN heap :
          /\ heap[i].params["code_challenge"] =
                _create_code_challenge(heap[i].code_verifier)
          /\ "code_verifier" \in DOMAIN heap[i].params =>
                heap[i].params["code_verifier"] = heap[i].code_verifier
    /\ \A k \in DOMAIN posts :
          posts[k].data["grant_type"] = "authorization_code" =>
              /\ posts[k].data["code_verifier"] = heap[cur].code_verifier
              /\ posts[k].data["code_challenge"] =
                    _create_code_challenge(posts[k].data["code_verifier"])

C21_Witness ==
    /\ calls = 2
    /\ pc = "response"
    /\ posts # <<>>
    /\ cur = 2
    /\ "code_verifier" \in DOMAIN heap[1].params
    /\ "code_verifier" \in DOMAIN heap[2].params

\* C22: a get_creds_from_remote() call in which no callback with the
\* client's state is dequeued changes nothing of any client: from its first
\* step to the state-mismatch error the request parameters, the code verifier
\* and the state token stay as they were, and the rejected code is not
\* written.
C22_MismatchLeavesClientUntouched ==
    [][((pc = "idle" /\ pc' \in {"start", "open", "get"})
          \/ (InFlight /\ auth_code = <<>> /\ pc # "response")
          \/ (InFlight /\ auth_code # <<>>
                /\ auth_code[1].state # heap[cur].state))
        => heap' = heap]_vars

C22_Witness ==
    /\ GetCredsEnded
    /\ result = Raise("get_creds_from_remote", StateMismatch)
    /\ auth_code # <<>>
    /\ "code" \notin DOMAIN heap[cur].params
    /\ served # <<>>
    /\ served[Len(served)].put = auth_code

\* The listener of the attempt has handled its one request and exited without
\* putting an Authorization Code on the queue: the attempt has failed.
ListenerFailed ==
    /\ pc = "get"
    /\ child = "exited"
    /\ q = <<>>
    /\ auth_code = <<>>

\* A call that has returned did so with the Credentials of a 200 token
\* response of that same call, and no call issues more than one POST.
ReturnsComeFromOneResponse ==
    /\ Len(posts) <= 1
    /\ (pc = "idle" /\ result.kind = "return") =>
          /\ Len(posts) = 1
          /\ resp # <<>>
          /\ resp[1].status_code = OK
          /\ result.value.access_token = resp[1].body["access_token"]

\* C23: no failure is swallowed.  A call that has returned did so with the
\* Credentials of a 200 token response of that same call, no call issues more
\* than one POST, and a call whose attempt has failed does not go without an
\* outcome: it ends, raising to its caller.
C23_NoFailureIsSwallowed ==
    /\ []ReturnsComeFromOneResponse
    /\ (ListenerFailed ~> (GetCredsEnded /\ result.kind = "raise"))

====
